---- MODULE Spec2Model ----
(***************************************************************************)
(* Model of hooks/cinder_utils.py: the LVM storage provisioning of the     *)
(* cinder charm (configure_lvm_storage, clean_storage,                     *)
(* _parse_block_device, extend_lvm_volume_group).                          *)
(*                                                                         *)
(* Python strings are sequences of one-character strings.  The Python      *)
(* object None and the Python integer 0 are one-element sequences whose    *)
(* element is not a character, so they differ from every string.           *)
(*                                                                         *)
(* The host (mount table, block devices, LVM metadata) is the state.  One  *)
(* invocation of configure_lvm_storage is one action: the engine is        *)
(* single-threaded and synchronous, so the whole pass is computed by       *)
(* operators that thread a machine record m through the calls in program   *)
(* order.  m.ok = FALSE means an exception is propagating: every later     *)
(* call of the pass is skipped.  m.log records every call the pass makes   *)
(* to a collaborator, with the state of its argument at the call.          *)
(*                                                                         *)
(* Any call to a collaborator can fail: m.tools.failAt is the position, in *)
(* the pass, of the call the host makes fail (0: none).  A failing call    *)
(* raises, and no code of the module catches an exception.                 *)
(*                                                                         *)
(* do_openstack_upgrade is modelled call by call: the services are         *)
(* stopped, the database is migrated on the leader, the services are       *)
(* started.                                                                *)
(***************************************************************************)
EXTENDS Integers, Sequences, FiniteSets, TLC

\* Longest descriptor list handed to configure_lvm_storage.
MaxLen == 2

\* ------------------------------------------------------------------ strings
None == << "<None>" >>
Int0 == << "<int 0>" >>

DEFAULT_LOOPBACK_SIZE == << "5", "G" >>

StartsWith(s, p) == Len(s) >= Len(p) /\ SubSeq(s, 1, Len(p)) = p

\* str.split(sep) for a one-character separator: the list of the pieces.
RECURSIVE Split(_, _)
Split(s, sep) ==
    IF \A i \in 1..Len(s) : s[i] # sep
    THEN << s >>
    ELSE LET k == CHOOSE i \in 1..Len(s) :
                      s[i] = sep /\ \A j \in 1..(i - 1) : s[j] # sep
         IN  << SubSeq(s, 1, k - 1) >> \o Split(SubSeq(s, k + 1, Len(s)), sep)

DevPrefix == << "/", "d", "e", "v", "/" >>

\* The pair (path, size) of a descriptor.
_parse_block_device(block_device) ==
    IF block_device \in { << "N", "o", "n", "e" >>, << "n", "o", "n", "e" >>, None }
    THEN << None, Int0 >>
    ELSE IF StartsWith(block_device, DevPrefix)
    THEN << block_device, Int0 >>
    ELSE IF StartsWith(block_device, << "/" >>)
    THEN LET _bd == Split(block_device, "|")
         IN  IF Len(_bd) = 2
             THEN << _bd[1], _bd[2] >>
             ELSE << block_device, DEFAULT_LOOPBACK_SIZE >>
    ELSE << DevPrefix \o block_device, Int0 >>

\* Python 2 comparisons of the parsed size with the integer 0: a str is
\* never equal to an int and orders after every int.
SizeIsZero(size) == size = Int0
SizeGtZero(size) == size # Int0

\* --------------------------------------------------------------------- host
DevB == DevPrefix \o << "b" >>
DevC == DevPrefix \o << "c" >>
LoopDev == DevPrefix \o << "l" >>
BackingFile == << "/", "x" >>

\* Device nodes of the host and the paths that can show in the mount table.
Devices == { DevB, DevC, LoopDev }
Paths == Devices \cup { BackingFile }

\* Descriptors of the charm's block-device option used in the passes: a bare
\* name, a /dev/ path, a backing file with a size and the inert 'None'.  The
\* backing file is the one attached to LoopDev, so two of them name the same
\* device.  DevC is a disk of the host that the option does not list.
Descriptors ==
    { << "b" >>, LoopDev, BackingFile \o << "|", "1" >>, << "N", "o", "n", "e" >> }

TargetVG == "cinder-volumes"
OtherVG == "other-vg"
NoVG == ""
VGNames == { TargetVG, OtherVG }

RECURSIVE ListsUpTo(_, _)
ListsUpTo(S, n) ==
    IF n = 0 THEN { << >> }
    ELSE LET shorter == ListsUpTo(S, n - 1)
         IN  shorter \cup { Append(l, x) : l \in { s \in shorter : Len(s) = n - 1 }, x \in S }

\* ----------------------------------------------------------- the collaborators
\* What the prober answers for a path.  A path that is not a device node of
\* the host is not a block device and not a physical volume.
is_device_mounted(m, path) == path \in DOMAIN m.mounted /\ m.mounted[path]
is_block_device(m, path) == path \in DOMAIN m.block /\ m.block[path]
is_lvm_physical_volume(m, path) == path \in DOMAIN m.pv /\ m.pv[path]
list_lvm_volume_group(m, path) == IF path \in DOMAIN m.vg THEN m.vg[path] ELSE NoVG

\* A volume group exists when some physical volume belongs to it.
VGExists(m, volume_group) == \E d \in DOMAIN m.vg : m.vg[d] = volume_group

\* An entry of the call log: the call, its argument, and the state of the
\* argument and of the target group when the call is made.
Entry(m, op, arg) ==
    [ op  |-> op,
      arg |-> arg,
      mnt |-> is_device_mounted(m, arg),
      pv  |-> is_lvm_physical_volume(m, arg),
      vg  |-> list_lvm_volume_group(m, arg),
      vgx |-> VGExists(m, m.volume_group) ]

\* F applied to the value of e: the value is computed once, then bound.
Bind(e, F(_)) == CHOOSE r \in { F(v) : v \in { e } } : TRUE

Rec(m, op, arg) == [m EXCEPT !.log = Append(@, Entry(m, op, arg))]

\* The call that was made last raises: m.failed is its position in the log.
Raise(m) == [m EXCEPT !.ok = FALSE, !.failed = Len(m.log)]

\* The call about to be made is the one the host makes fail.
Fails(m) == m.tools.failAt = Len(m.log) + 1

\* Probe made even while an exception propagates.
Probe_AfterRaise(m, op, arg) ==
    IF m.ok /\ Fails(m) THEN Raise(Rec(m, op, arg))
    ELSE Rec(m, op, arg)

\* A call that answers without changing the mount table or the LVM
\* metadata: a prober, mounts(), ensure_loopback_device.
Probe(m, op, arg) ==
    IF ~m.ok THEN m
    ELSE IF Fails(m) THEN Raise(Rec(m, op, arg))
    ELSE Rec(m, op, arg)

\* umount(mp, persist=True) of the mount point of the device.
umount(m, device) ==
    IF ~m.ok THEN m
    ELSE IF Fails(m) THEN Raise(Rec(m, "umount", device))
    ELSE [Rec(m, "umount", device) EXCEPT !.mounted[device] = FALSE]

\* vgchange -an of the group of the device.  What the tool does for a
\* physical volume that is in no group is left open (m.tools.emptyVgFails).
deactivate_lvm_volume_group(m, device) ==
    IF ~m.ok THEN m
    ELSE IF Fails(m) \/ (m.vg[device] = NoVG /\ m.tools.emptyVgFails)
    THEN Raise(Rec(m, "deactivate_lvm_volume_group", device))
    ELSE Rec(m, "deactivate_lvm_volume_group", device)

\* pvremove -ff: the signature goes, and with it the membership.
remove_lvm_physical_volume(m, device) ==
    IF ~m.ok THEN m
    ELSE IF Fails(m) THEN Raise(Rec(m, "remove_lvm_physical_volume", device))
    ELSE [Rec(m, "remove_lvm_physical_volume", device)
             EXCEPT !.pv[device] = FALSE, !.vg[device] = NoVG]

zap_disk(m, device) ==
    IF ~m.ok THEN m
    ELSE IF Fails(m) THEN Raise(Rec(m, "zap_disk", device))
    ELSE Rec(m, "zap_disk", device)

\* pvcreate: refuses a device that is in use.
create_lvm_physical_volume(m, device) ==
    IF ~m.ok THEN m
    ELSE IF Fails(m) \/ m.mounted[device] \/ m.vg[device] # NoVG
    THEN Raise(Rec(m, "create_lvm_physical_volume", device))
    ELSE [Rec(m, "create_lvm_physical_volume", device)
             EXCEPT !.pv[device] = TRUE, !.vg[device] = NoVG]

\* vgcreate: refuses an existing group name and a device that is in a group.
create_lvm_volume_group(m, volume_group, device) ==
    IF ~m.ok THEN m
    ELSE IF Fails(m) \/ VGExists(m, volume_group) \/ ~m.pv[device]
            \/ m.vg[device] # NoVG
    THEN Raise(Rec(m, "create_lvm_volume_group", device))
    ELSE [Rec(m, "create_lvm_volume_group", device)
             EXCEPT !.vg[device] = volume_group]

\* vgextend (check_call): refuses a missing group and a device that is
\* already in a group.
extend_lvm_volume_group(m, volume_group, block_device) ==
    IF ~m.ok THEN m
    ELSE IF Fails(m) \/ ~VGExists(m, volume_group) \/ ~m.pv[block_device]
            \/ m.vg[block_device] # NoVG
    THEN Raise(Rec(m, "extend_lvm_volume_group", block_device))
    ELSE [Rec(m, "extend_lvm_volume_group", block_device)
             EXCEPT !.vg[block_device] = volume_group]

\* The loop device a backing file is attached to.  Attaching changes
\* neither the mount table nor the LVM metadata.
ensure_loopback_device(path, size) == LoopDev

\* ------------------------------------------------------------ clean_storage
\* clean_storage removing the signature before it deactivates the group.
clean_storage_RemoveFirst(m, block_device) ==
    IF ~m.ok THEN m
    ELSE
    Bind(Rec(m, "clean_storage", block_device), LAMBDA m0 :
    Bind(Probe(m0, "mounts", block_device), LAMBDA m1 :
    Bind(IF m1.ok /\ is_device_mounted(m1, block_device)
         THEN umount(m1, block_device)
         ELSE m1, LAMBDA m2 :
    Bind(Probe(m2, "is_lvm_physical_volume", block_device), LAMBDA m3 :
    Bind(IF m3.ok /\ is_lvm_physical_volume(m3, block_device)
         THEN Bind(remove_lvm_physical_volume(m3, block_device), LAMBDA m4 :
                   deactivate_lvm_volume_group(m4, block_device))
         ELSE m3, LAMBDA m5 :
    zap_disk(m5, block_device))))))

clean_storage(m, block_device) ==
    IF ~m.ok THEN m
    ELSE
    Bind(Rec(m, "clean_storage", block_device), LAMBDA m0 :
    Bind(Probe(m0, "mounts", block_device), LAMBDA m1 :
    Bind(IF m1.ok /\ is_device_mounted(m1, block_device)
         THEN umount(m1, block_device)
         ELSE m1, LAMBDA m2 :
    Bind(Probe(m2, "is_lvm_physical_volume", block_device), LAMBDA m3 :
    Bind(IF m3.ok /\ is_lvm_physical_volume(m3, block_device)
         THEN Bind(deactivate_lvm_volume_group(m3, block_device), LAMBDA m4 :
                   remove_lvm_physical_volume(m4, block_device))
         ELSE m3, LAMBDA m5 :
    zap_disk(m5, block_device))))))

\* ---------------------------------------------------- configure_lvm_storage
\* Lines 288-294: one descriptor of the list.  What the prober does with the
\* path None is left open (m.tools.nullRaises): it raises, or it answers False.
AddCandidate(m, descriptor) ==
    LET pair == _parse_block_device(descriptor)
        block_device == pair[1]
        size == pair[2]
    IN  Bind(Probe(m, "is_device_mounted", block_device), LAMBDA m1 :
        IF ~m1.ok
        THEN m1
        ELSE IF block_device = None /\ m1.tools.nullRaises
        THEN Raise(m1)
        ELSE IF is_device_mounted(m1, block_device)
        THEN m1
        ELSE IF SizeIsZero(size)
        THEN Bind(Probe(m1, "is_block_device", block_device), LAMBDA m2 :
                  IF m2.ok /\ is_block_device(m2, block_device)
                  THEN [m2 EXCEPT !.devices = Append(@, block_device)]
                  ELSE m2)
        ELSE IF SizeGtZero(size)
        THEN Bind(Probe(m1, "ensure_loopback_device", block_device), LAMBDA m2 :
                  IF m2.ok
                  THEN [m2 EXCEPT !.devices =
                            Append(@, ensure_loopback_device(block_device, size))]
                  ELSE m2)
        ELSE m1)

\* Lines 286-294: the candidate list.
RECURSIVE BuildDevices(_, _)
BuildDevices(m, block_devices) ==
    IF block_devices = << >> \/ ~m.ok THEN m
    ELSE Bind(AddCandidate(m, Head(block_devices)), LAMBDA m1 :
              BuildDevices(m1, Tail(block_devices)))

\* CaseA without the comparison of the group: every device is taken as new.
CaseA_AnyPV(m, device) ==
    \/ ~is_lvm_physical_volume(m, device)
    \/ is_lvm_physical_volume(m, device)

\* CaseA with the comparison of the group inverted.
CaseA_Flipped(m, device) ==
    \/ ~is_lvm_physical_volume(m, device)
    \/ /\ is_lvm_physical_volume(m, device)
       /\ list_lvm_volume_group(m, device) = m.volume_group

\* Lines 301-303: the device is new, or a physical volume of another group.
CaseA(m, device) ==
    \/ ~is_lvm_physical_volume(m, device)
    \/ /\ is_lvm_physical_volume(m, device)
       /\ list_lvm_volume_group(m, device) # m.volume_group

\* Lines 309-310: the device is a physical volume of the required group.
CaseB(m, device) ==
    /\ is_lvm_physical_volume(m, device)
    /\ list_lvm_volume_group(m, device) = m.volume_group

\* The guard of line 305 never satisfied.
MayOverwrite_Never(m) == FALSE

\* The guard of line 305 left out.
MayOverwrite_Always(m) == TRUE

\* Line 305: overwrite is True.
MayOverwrite(m) == m.overwrite = TRUE

\* Lines 301-312: one candidate.  The log holds the prober calls the
\* conditions make, in the order of their short-circuit evaluation.
ClassifyDevice(m, device) ==
    Bind(Probe(m, "is_lvm_physical_volume", device), LAMBDA m1 :
    Bind(IF m1.ok /\ is_lvm_physical_volume(m1, device)
         THEN Bind(Probe(m1, "is_lvm_physical_volume", device), LAMBDA m2 :
                   Probe(m2, "list_lvm_volume_group", device))
         ELSE m1, LAMBDA m3 :
    IF ~m3.ok
    THEN m3
    ELSE IF CaseA(m3, device)
    THEN IF MayOverwrite(m3)
         THEN Bind(clean_storage(m3, device), LAMBDA m4 :
              Bind(IF m4.ok
                   THEN [m4 EXCEPT !.new_devices = Append(@, device)]
                   ELSE m4, LAMBDA m5 :
              create_lvm_physical_volume(m5, device)))
         ELSE m3
    ELSE Bind(Probe(m3, "is_lvm_physical_volume", device), LAMBDA m4 :
         Bind(Probe(m4, "list_lvm_volume_group", device), LAMBDA m5 :
         IF m5.ok /\ CaseB(m5, device)
         THEN [m5 EXCEPT !.vg_found = TRUE]
         ELSE m5))))

\* Lines 298-312: the eligibility partition.
RECURSIVE ClassifyDevices(_, _)
ClassifyDevices(m, devices) ==
    IF devices = << >> \/ ~m.ok THEN m
    ELSE Bind(ClassifyDevice(m, Head(devices)), LAMBDA m1 :
              ClassifyDevices(m1, Tail(devices)))

\* list.remove(x): drops the first element equal to x.
RECURSIVE ListRemove(_, _)
ListRemove(l, x) ==
    IF l = << >> THEN l
    ELSE IF Head(l) = x THEN Tail(l)
    ELSE << Head(l) >> \o ListRemove(Tail(l), x)

\* The test of line 314 without vg_found.
NeedCreate_IgnoreFound(m) == Len(m.new_devices) > 0

\* Line 314: no device of the group was found and there is a new device.
NeedCreate(m) == m.vg_found = FALSE /\ Len(m.new_devices) > 0

\* MaterializeGroup creating the group from every new device in turn.
MaterializeGroup_EachDevice(m) ==
    IF ~m.ok THEN m
    ELSE IF NeedCreate(m)
    THEN Bind(create_lvm_volume_group(m, m.volume_group, m.new_devices[1]),
              LAMBDA m1 :
         Bind(IF Len(m.new_devices) > 1
              THEN create_lvm_volume_group(m1, m.volume_group, m.new_devices[2])
              ELSE m1, LAMBDA m2 :
              IF m2.ok THEN [m2 EXCEPT !.new_devices = << >>] ELSE m2))
    ELSE m

\* MaterializeGroup emptying the list of new devices after the creation.
MaterializeGroup_DropAll(m) ==
    IF ~m.ok THEN m
    ELSE IF NeedCreate(m)
    THEN Bind(create_lvm_volume_group(m, m.volume_group, m.new_devices[1]),
              LAMBDA m1 :
              IF m1.ok THEN [m1 EXCEPT !.new_devices = << >>] ELSE m1)
    ELSE m

\* Lines 314-317: the group is created from the first new device.
MaterializeGroup(m) ==
    IF ~m.ok THEN m
    ELSE IF NeedCreate(m)
    THEN Bind(create_lvm_volume_group(m, m.volume_group, m.new_devices[1]),
              LAMBDA m1 :
              IF m1.ok
              THEN [m1 EXCEPT !.new_devices = ListRemove(@, m.new_devices[1])]
              ELSE m1)
    ELSE m

\* Lines 319-322: the group is extended with the remaining new devices.
RECURSIVE ExtendGroup(_, _)
ExtendGroup(m, new_devices) ==
    IF new_devices = << >> \/ ~m.ok THEN m
    ELSE Bind(extend_lvm_volume_group(m, m.volume_group, Head(new_devices)),
              LAMBDA m1 : ExtendGroup(m1, Tail(new_devices)))

\* The machine at the entry of a pass.
Machine(blk, mnt, p, v, volume_group, overwrite, tools) ==
    [ block |-> blk, mounted |-> mnt, pv |-> p, vg |-> v,
      volume_group |-> volume_group, overwrite |-> overwrite, tools |-> tools,
      log |-> << >>, ok |-> TRUE, failed |-> 0,
      devices |-> << >>, vg_found |-> FALSE, new_devices |-> << >> ]

configure_lvm_storage(m, block_devices) ==
    Bind(BuildDevices(m, block_devices), LAMBDA m1 :
    Bind(ClassifyDevices(m1, m1.devices), LAMBDA m2 :
    Bind(MaterializeGroup(m2), LAMBDA m3 :
    ExtendGroup(m3, m3.new_devices))))

\* -------------------------------------------------------------------- state
VARIABLES
    block,      \* block[d]: d is a block device node
    mounted,    \* mounted[p]: p is the source of an entry of the mount table
    pv,         \* pv[d]: d carries an LVM physical-volume signature
    vg,         \* vg[d]: the volume group of the physical volume d, or NoVG
    pc,         \* "idle": no pass has run in this hook; "done": a pass returned
    args,       \* the arguments of the pass
    log,        \* the calls of the pass, in order
    ok,         \* the pass returned normally
    failed,     \* the position in the log of the call that raised, or 0
    devices,    \* the candidate list the pass built
    pre,        \* the host at the entry of the pass
    prev,       \* the previous pass of the hook, when this pass repeats it
    raw,        \* a descriptor handed to _parse_block_device
    normalized, \* what _parse_block_device returned for raw, or NotParsed
    upc,        \* the position of do_openstack_upgrade
    enabled,    \* the cinder services the configuration enables
    running,    \* the services that run
    todo,       \* the rest of the list the running comprehension goes through
    leader,     \* what eligible_leader answered
    ulog        \* the calls of do_openstack_upgrade, in order

lvmvars ==
    << block, mounted, pv, vg, pc, args, log, ok, failed, devices, pre, prev >>
parservars == << raw, normalized >>
upgradevars == << upc, enabled, running, todo, leader, ulog >>
vars == << lvmvars, parservars, upgradevars >>

\* Latest position of a pass at which a call is made to fail.
MaxFail == 28

\* The answers left open for the tools, without and with a failing call.
Tools == [ nullRaises : BOOLEAN, emptyVgFails : BOOLEAN, failAt : { 0 } ]
FaultTools == [ nullRaises : { FALSE }, emptyVgFails : BOOLEAN, failAt : 0..MaxFail ]

NoArgs == [ block_devices |-> << >>, overwrite |-> FALSE ]
NoPre == [ mounted |-> << >>, pv |-> << >>, vg |-> << >> ]
NoPrev == [ again |-> FALSE, ok |-> TRUE, wrote |-> FALSE ]
NotParsed == << >>

\* The calls that change the host.
WriteOps ==
    { "umount", "deactivate_lvm_volume_group", "remove_lvm_physical_volume",
      "zap_disk", "create_lvm_physical_volume", "create_lvm_volume_group",
      "extend_lvm_volume_group" }
Wrote(l) == \E i \in 1..Len(l) : l[i].op \in WriteOps

\* A host: only a block device is mounted or a physical volume, only a
\* physical volume is in a group, and the loop device node always exists.
\* No pass probes DevC: only its LVM state shows, through the group.
HostOK(blk, mnt, p, v) ==
    /\ blk[LoopDev]
    /\ blk[DevC] /\ ~mnt[DevC]
    /\ \A d \in Devices : (mnt[d] \/ p[d]) => blk[d]
    /\ \A d \in Devices : v[d] # NoVG => p[d]

\* No pass has run.
NoPass ==
    /\ pc = "idle"
    /\ args = NoArgs
    /\ log = << >>
    /\ ok = TRUE
    /\ failed = 0
    /\ devices = << >>
    /\ pre = NoPre
    /\ prev = NoPrev

\* No descriptor is being parsed.
NoParse == raw = None /\ normalized = NotParsed

\* No upgrade is under way.
NoUpgrade ==
    /\ upc = "idle"
    /\ enabled = { }
    /\ running = { }
    /\ todo = << >>
    /\ leader = FALSE
    /\ ulog = << >>

\* Any host.
InitHost ==
    /\ block \in [Devices -> BOOLEAN]
    /\ mounted \in [Paths -> BOOLEAN]
    /\ pv \in [Devices -> BOOLEAN]
    /\ vg \in [Devices -> VGNames \cup { NoVG }]
    /\ HostOK(block, mounted, pv, vg)

Init ==
    /\ InitHost
    /\ NoPass
    /\ NoParse
    /\ NoUpgrade

\* One invocation of configure_lvm_storage, from entry to return or raise.
RunPass(block_devices, overwrite, tools) ==
    \E m \in { Bind(Machine(block, mounted, pv, vg, TargetVG, overwrite, tools),
                      LAMBDA m0 : configure_lvm_storage(m0, block_devices)) } :
        /\ mounted' = m.mounted
        /\ pv' = m.pv
        /\ vg' = m.vg
        /\ log' = m.log
        /\ ok' = m.ok
        /\ failed' = m.failed
        /\ devices' = m.devices
        /\ args' = [ block_devices |-> block_devices, overwrite |-> overwrite ]
        /\ pre' = [ mounted |-> mounted, pv |-> pv, vg |-> vg ]
        /\ pc' = "done"
        /\ UNCHANGED << block, parservars, upgradevars >>

\* A hook calls configure_lvm_storage with the charm's configuration.
Configure(block_devices, overwrite, tools) ==
    /\ pc = "idle"
    /\ RunPass(block_devices, overwrite, tools)
    /\ prev' = NoPrev

\* The hook runs again with the configuration unchanged.
Reconfigure(tools) ==
    /\ pc = "done"
    /\ RunPass(args.block_devices, args.overwrite, tools)
    /\ prev' = [ again |-> TRUE, ok |-> ok, wrote |-> Wrote(log) ]

\* The hook is over; the next one starts from the host as it is.
Return ==
    /\ pc = "done"
    /\ pc' = "idle"
    /\ args' = NoArgs
    /\ log' = << >>
    /\ ok' = TRUE
    /\ failed' = 0
    /\ devices' = << >>
    /\ pre' = NoPre
    /\ prev' = NoPrev
    /\ UNCHANGED << block, mounted, pv, vg, parservars, upgradevars >>

Next ==
    \/ \E bds \in ListsUpTo(Descriptors, MaxLen), ow \in BOOLEAN, t \in Tools :
           Configure(bds, ow, t)
    \/ \E t \in Tools : Reconfigure(t)
    \/ Return

Spec == Init /\ [][Next]_vars

TypeOK ==
    /\ pc \in { "idle", "done" }
    /\ HostOK(block, mounted, pv, vg)
    /\ ok \in BOOLEAN
    /\ failed \in 0..Len(log)
    /\ prev \in [ again : BOOLEAN, ok : BOOLEAN, wrote : BOOLEAN ]

\* ------------------------------------------------- passes with a failing call
\* The descriptors of the passes in which a call is made to fail: a bare
\* name and a backing file.
FaultDescriptors == { << "b" >>, BackingFile \o << "|", "1" >> }

\* The hosts of these passes: the one mount is a mount of the loop device.
InitF ==
    /\ Init
    /\ block[DevB]
    /\ ~mounted[DevB]
    /\ ~mounted[BackingFile]

\* A pass in which the host makes any one call fail, or none.
ConfigureF(block_devices, overwrite, tools) ==
    Configure(block_devices, overwrite, tools)

\* The hook runs again and the host makes no call fail.
NextF ==
    \/ \E bds \in ListsUpTo(FaultDescriptors, MaxLen), ow \in BOOLEAN,
          t \in FaultTools :
           ConfigureF(bds, ow, t)
    \/ \E t \in { u \in FaultTools : u.failAt = 0 } : Reconfigure(t)
    \/ Return

SpecF == InitF /\ [][NextF]_vars

\* ---------------------------------------------------- parsing one descriptor
\* Longest tail of a descriptor handed to _parse_block_device.
MaxTail == 3

\* The descriptors: the object None, and the strings made of a head that
\* selects a branch of the parser and of a tail of device, separator and
\* size characters.  '/x', '/x|0', '/x|0|0', 'b', '/dev/b', '' and 'None'
\* are among them.
Heads ==
    { << >>, << "/" >>, DevPrefix, << "N", "o", "n", "e" >>, << "n", "o", "n", "e" >> }
TailChars == { "b", "x", "|", "0" }
RawInputs ==
    { None } \cup { h \o t : h \in Heads, t \in ListsUpTo(TailChars, MaxTail) }

\* A host without LVM metadata whose disks are all present, any mount
\* table, and a descriptor.
InitP ==
    /\ InitHost
    /\ \A d \in Devices : block[d] /\ ~pv[d]
    /\ NoPass
    /\ raw \in RawInputs
    /\ normalized = NotParsed
    /\ NoUpgrade

\* _parse_block_device is applied to the descriptor.
Parse ==
    /\ pc = "idle"
    /\ normalized = NotParsed
    /\ normalized' = _parse_block_device(raw)
    /\ UNCHANGED << lvmvars, raw, upgradevars >>

\* configure_lvm_storage is called with the descriptor as its whole list.
ConfigureRaw(overwrite, tools) ==
    /\ normalized # NotParsed
    /\ Configure(<< raw >>, overwrite, tools)

NextP ==
    \/ Parse
    \/ \E ow \in BOOLEAN, t \in Tools : ConfigureRaw(ow, t)

SpecP == InitP /\ [][NextP]_vars

\* ------------------------------------------------------ do_openstack_upgrade
\* The services of CONFIG_FILES: the cinder services, listed by
\* restart_map() when the configuration enables them, and the others.
CinderServices == { "cinder-api", "cinder-volume", "cinder-scheduler" }
OtherServices == { "haproxy", "apache2" }

\* The set of the services of restart_map().
ServiceSet(en) == en \cup OtherServices

\* services(): list(set(...)), the services in the order of the set, which
\* is any order but the same one at each call of the hook.
services(en) ==
    { l \in [1..Cardinality(ServiceSet(en)) -> ServiceSet(en)] :
          \A i, j \in DOMAIN l : i # j => l[i] # l[j] }

CLUSTER_RES == "res_cinder_vip"

\* Lines 405-421, in order: the calls that precede the stop of the services.
UpgradeSteps ==
    << "get_os_codename_install_source", "configure_installation_source",
       "apt_update", "apt_upgrade", "apt_install", "set_release", "write_all" >>

Call(op, arg) == [ op |-> op, arg |-> arg ]

\* The list services() returned at line 424, read from the calls made.
Stopped ==
    LET sel == SelectSeq(ulog, LAMBDA e : e.op = "service_stop")
    IN  [ i \in 1..Len(sel) |-> sel[i].arg ]

\* A unit with any enabled services, any of them running, on a host
\* without LVM metadata.
InitU ==
    /\ InitHost
    /\ \A d \in Devices : block[d] /\ ~pv[d]
    /\ \A p \in Paths : ~mounted[p]
    /\ NoPass
    /\ NoParse
    /\ upc = "idle"
    /\ enabled \in SUBSET CinderServices
    /\ running \in SUBSET ServiceSet(enabled)
    /\ todo = << >>
    /\ leader = FALSE
    /\ ulog = << >>

\* Lines 405-421 and the call of services() of line 424: the packages are
\* upgraded and the configuration is rewritten.  The first n calls return;
\* the next one, if there is one, raises and ends the upgrade.
upgrade_packages(n) ==
    /\ upc = "idle"
    /\ ulog' = [ i \in 1..(IF n < Len(UpgradeSteps) THEN n + 1 ELSE n) |->
                     Call(UpgradeSteps[i], "") ]
    /\ upc' = IF n = Len(UpgradeSteps) THEN "stop" ELSE "raised"
    /\ IF n = Len(UpgradeSteps)
       THEN todo' \in services(enabled)
       ELSE todo' = << >>
    /\ UNCHANGED << lvmvars, parservars, enabled, running, leader >>

\* Line 424, one element of the comprehension: the result of service_stop
\* is dropped, whether the service stopped or not.
service_stop(stopped) ==
    /\ upc = "stop"
    /\ ulog' = Append(ulog, Call("service_stop", Head(todo)))
    /\ running' = IF stopped THEN running \ { Head(todo) } ELSE running
    /\ todo' = Tail(todo)
    /\ upc' = IF Len(todo) = 1 THEN "leader" ELSE "stop"
    /\ UNCHANGED << lvmvars, parservars, enabled, leader >>

\* eligible_leader with its answer ignored: the migration always follows.
eligible_leader_Ungated(answer) ==
    /\ upc = "leader"
    /\ ulog' = Append(ulog, Call("eligible_leader", CLUSTER_RES))
    /\ leader' = answer
    /\ upc' = "migrate"
    /\ UNCHANGED << lvmvars, parservars, enabled, running, todo >>

\* Line 425: the leadership oracle is asked; on another unit line 427
\* follows, with its call of services().
eligible_leader(answer) ==
    /\ upc = "leader"
    /\ ulog' = Append(ulog, Call("eligible_leader", CLUSTER_RES))
    /\ leader' = answer
    /\ upc' = IF answer THEN "migrate" ELSE "start"
    /\ todo' = IF answer THEN << >> ELSE Stopped
    /\ UNCHANGED << lvmvars, parservars, enabled, running >>

\* Line 426: cinder-manage db sync, by check_call: it returns, and line 427
\* follows, or it raises.
migrate_database(synced) ==
    /\ upc = "migrate"
    /\ ulog' = Append(ulog, Call("migrate_database", ""))
    /\ upc' = IF synced THEN "start" ELSE "raised"
    /\ todo' = IF synced THEN Stopped ELSE << >>
    /\ UNCHANGED << lvmvars, parservars, enabled, running, leader >>

\* Line 427, one element of the comprehension.
service_start(started) ==
    /\ upc = "start"
    /\ ulog' = Append(ulog, Call("service_start", Head(todo)))
    /\ running' = IF started THEN running \cup { Head(todo) } ELSE running
    /\ todo' = Tail(todo)
    /\ upc' = IF Len(todo) = 1 THEN "done" ELSE "start"
    /\ UNCHANGED << lvmvars, parservars, enabled, leader >>

NextU ==
    \/ \E n \in 0..Len(UpgradeSteps) : upgrade_packages(n)
    \/ \E stopped \in BOOLEAN : service_stop(stopped)
    \/ \E answer \in BOOLEAN : eligible_leader(answer)
    \/ \E synced \in BOOLEAN : migrate_database(synced)
    \/ \E started \in BOOLEAN : service_start(started)

SpecU == InitU /\ [][NextU]_vars

\* ------------------------------------------------------------------- claims
Done == pc = "done"

\* The positions of the log that hold a call of op.
Calls(op) == { i \in 1..Len(log) : log[i].op = op }

\* Sanitizing, initializing, creating and extending.
ProvisionOps ==
    { "clean_storage", "create_lvm_physical_volume",
      "create_lvm_volume_group", "extend_lvm_volume_group" }
NoProvisioning == \A i \in 1..Len(log) : log[i].op \notin ProvisionOps

\* The state of a device at the entry of the pass.
WasInTarget(d) == pre.pv[d] /\ pre.vg[d] = TargetVG
WasCaseA(d) == ~pre.pv[d] \/ pre.vg[d] # TargetVG
NowInTarget(d) == pv[d] /\ vg[d] = TargetVG

\* C1: a pass that repeats, with the same arguments, a pass that returned
\* normally makes no clean_storage, create_lvm_physical_volume,
\* create_lvm_volume_group or extend_lvm_volume_group call.
C1_Idempotent == (Done /\ prev.again /\ prev.ok) => NoProvisioning

\* The repeated pass follows a pass that provisioned two devices.
C1_Witness ==
    /\ Done /\ prev.again /\ prev.ok /\ prev.wrote
    /\ args.overwrite
    /\ Len(devices) = 2 /\ devices[1] # devices[2]
    /\ \A i \in 1..2 : WasInTarget(devices[i])

\* C2: with overwrite=false a pass makes no clean_storage,
\* create_lvm_physical_volume, create_lvm_volume_group or
\* extend_lvm_volume_group call, whatever the host and the descriptors.
C2_NoOverwriteInert == (Done /\ ~args.overwrite) => NoProvisioning

\* A pass without overwrite whose candidates are a new device and a physical
\* volume of another group.
C2_Witness ==
    /\ Done /\ ~args.overwrite
    /\ \E i, j \in 1..Len(devices) :
           /\ ~pre.pv[devices[i]]
           /\ pre.pv[devices[j]] /\ pre.vg[devices[j]] = OtherVG

\* C3: clean_storage is called on a device only with overwrite=true and
\* only when the device is not a physical volume of the target group at the
\* call; a device found to be a physical volume of the target group when it
\* is examined is the argument of no clean_storage,
\* create_lvm_physical_volume, create_lvm_volume_group or
\* extend_lvm_volume_group call of the pass.
C3_SanitizeOnlyCaseA ==
    Done =>
        /\ \A i \in Calls("clean_storage") :
               args.overwrite /\ ~(log[i].pv /\ log[i].vg = TargetVG)
        /\ \A i \in Calls("list_lvm_volume_group") :
               log[i].vg = TargetVG =>
                   \A j \in 1..Len(log) :
                       log[j].arg = log[i].arg => log[j].op \notin ProvisionOps

\* A pass with overwrite that finds one candidate in the target group and
\* sanitizes another.
C3_Witness ==
    /\ Done /\ args.overwrite
    /\ \E i \in Calls("list_lvm_volume_group") : log[i].vg = TargetVG
    /\ \E i \in Calls("clean_storage") : log[i].pv /\ log[i].vg = OtherVG

\* The candidates the pass has to bring into the group.
Eligible(d) == WasInTarget(d) \/ (WasCaseA(d) /\ args.overwrite)

\* C4: after a pass that returned normally, every eligible candidate is a
\* physical volume of the target group.
C4_EligibleInGroup ==
    (Done /\ ok) =>
        \A i \in 1..Len(devices) : Eligible(devices[i]) => NowInTarget(devices[i])

\* A pass that brought a new device and a physical volume of another group
\* into the target group.
C4_Witness ==
    /\ Done /\ ok /\ args.overwrite
    /\ \E i, j \in 1..Len(devices) :
           /\ ~pre.pv[devices[i]]
           /\ pre.pv[devices[j]] /\ pre.vg[devices[j]] = OtherVG
           /\ NowInTarget(devices[i]) /\ NowInTarget(devices[j])

GroupBefore == \E d \in Devices : pre.vg[d] = TargetVG
GroupNow == \E d \in Devices : vg[d] = TargetVG
SomeEligible == \E i \in 1..Len(devices) : Eligible(devices[i])

\* C5, as stated: after a pass that returned normally the target group
\* exists if and only if the pass processed an eligible candidate.
C5_GroupIffEligible == (Done /\ ok) => (GroupNow <=> SomeEligible)

\* C5, amended: after a pass that returned normally the target group exists
\* if and only if it existed at the entry of the pass or the pass processed
\* an eligible candidate.
C5_GroupIffExistedOrEligible ==
    (Done /\ ok) => (GroupNow <=> (GroupBefore \/ SomeEligible))

\* A pass that made the group from a new device on a host without the group.
C5_Witness ==
    /\ Done /\ ok /\ ~GroupBefore /\ GroupNow
    /\ \E i \in 1..Len(devices) : WasCaseA(devices[i]) /\ args.overwrite

\* C6: create_lvm_volume_group is never called while a volume group of the
\* target name exists on the host.
C6_CreateOnlyWhenAbsent ==
    Done => \A i \in Calls("create_lvm_volume_group") : ~log[i].vgx

\* C7: a pass calls create_lvm_volume_group at most once.
C7_AtMostOneCreate == Done => Cardinality(Calls("create_lvm_volume_group")) <= 1

\* A pass that created the group from one new device and extended it with
\* another.
C7_Witness ==
    /\ Done /\ ok
    /\ Cardinality(Calls("create_lvm_volume_group")) = 1
    /\ Calls("extend_lvm_volume_group") # { }

\* The arguments of the calls of op, in the order of the calls.
ArgsOf(op) ==
    LET sel == SelectSeq(log, LAMBDA e : e.op = op)
    IN  [ i \in 1..Len(sel) |-> sel[i].arg ]

\* Every candidate is unmounted and no physical volume at the entry of the pass.
AllFresh ==
    \A i \in 1..Len(devices) : ~pre.mounted[devices[i]] /\ ~pre.pv[devices[i]]

\* No descriptor of the pass is inert.
NoInert ==
    \A k \in 1..Len(args.block_devices) :
        _parse_block_device(args.block_devices[k])[1] # None

\* C8: with overwrite=true, no target group and only fresh candidates, the
\* pass sanitizes every candidate, creates the group from the first
\* candidate, then extends it with each remaining candidate once, in
\* discovery order: every extend call follows the create call and none has
\* the seed as its argument.  (Stated for lists without inert descriptors.)
C8_FreshScenario ==
    (Done /\ args.overwrite /\ NoInert /\ devices # << >> /\ ~GroupBefore /\ AllFresh) =>
        /\ ArgsOf("clean_storage") = devices
        /\ ArgsOf("create_lvm_volume_group") = << devices[1] >>
        /\ ArgsOf("extend_lvm_volume_group") = Tail(devices)
        /\ \A i \in Calls("create_lvm_volume_group"),
              j \in Calls("extend_lvm_volume_group") : i < j
        /\ \A j \in Calls("extend_lvm_volume_group") : log[j].arg # devices[1]

\* C9: when a candidate is a physical volume of the target group at the
\* entry of the pass, the pass makes no create_lvm_volume_group call, and
\* every device it initializes is added by a later extend_lvm_volume_group
\* call when the pass returns normally.
C9_FoundMeansNoCreate ==
    (Done /\ \E i \in 1..Len(devices) : WasInTarget(devices[i])) =>
        /\ Calls("create_lvm_volume_group") = { }
        /\ ok => \A j \in Calls("create_lvm_physical_volume") :
                     \E k \in Calls("extend_lvm_volume_group") :
                         k > j /\ log[k].arg = log[j].arg

\* The member of the group is the last candidate and the first one is new.
C9_Witness ==
    /\ Done /\ ok /\ args.overwrite
    /\ Len(devices) = 2
    /\ WasInTarget(devices[2]) /\ ~WasInTarget(devices[1])
    /\ Calls("extend_lvm_volume_group") # { }
    /\ NowInTarget(devices[1])

\* The calls that act on their argument.
ActingOps == WriteOps \cup { "clean_storage", "ensure_loopback_device" }

\* C10: for a descriptor whose path is mounted at the entry of the pass, the
\* pass makes no unmount, sanitize, loopback, physical-volume or
\* volume-group call on the path, and the path is still mounted at the end.
C10_MountedExcluded ==
    Done =>
        \A k \in 1..Len(args.block_devices) :
            LET path == _parse_block_device(args.block_devices[k])[1]
            IN  (path \in Paths /\ pre.mounted[path]) =>
                    /\ mounted[path]
                    /\ \A i \in 1..Len(log) :
                           log[i].arg = path => log[i].op \notin ActingOps

\* The number of occurrences of c in the string s.
Count(s, c) == Cardinality({ i \in 1..Len(s) : s[i] = c })

\* The position of the first occurrence of c in the string s.
First(s, c) == CHOOSE i \in 1..Len(s) : s[i] = c /\ \A j \in 1..(i - 1) : s[j] # c

\* The ordered rules of the parser, the first that matches giving the pair.
ParserRules(r) ==
    IF r \in { None, << "N", "o", "n", "e" >>, << "n", "o", "n", "e" >>, << >> }
    THEN << None, Int0 >>
    ELSE IF StartsWith(r, DevPrefix)
    THEN << r, Int0 >>
    ELSE IF StartsWith(r, << "/" >>)
    THEN IF Count(r, "|") = 1
         THEN << SubSeq(r, 1, First(r, "|") - 1),
                 SubSeq(r, First(r, "|") + 1, Len(r)) >>
         ELSE << r, DEFAULT_LOOPBACK_SIZE >>
    ELSE << DevPrefix \o r, Int0 >>

\* C11: for every descriptor, _parse_block_device returns the pair of the
\* ordered first-match rules: None, 'None', 'none' and the empty string give
\* (None, 0); a /dev/ path gives (path, 0); another absolute path gives its
\* two parts around the one '|', or (path, DEFAULT_LOOPBACK_SIZE) when it
\* has no or several '|'; any other name gives ('/dev/' + name, 0).
C11_ParserRules == normalized # NotParsed => normalized = ParserRules(raw)

\* The calls made with the null path as their argument.
NullCalls == { i \in 1..Len(log) : log[i].arg = None }

\* The descriptors of the list that are not inert, in order.
Effective(block_devices) ==
    SelectSeq(block_devices, LAMBDA d : _parse_block_device(d)[1] # None)

\* The candidate list built from the list without its inert descriptors.
CandidatesWithoutInert ==
    BuildDevices(Machine(block, pre.mounted, pre.pv, pre.vg, TargetVG,
                         args.overwrite,
                         [ nullRaises |-> FALSE, emptyVgFails |-> FALSE,
                           failAt |-> 0 ]),
                 Effective(args.block_devices)).devices

\* C12: a pass makes no call with the null path of an inert descriptor (no
\* is_device_mounted, no is_block_device, no ensure_loopback_device, no
\* state-changing call), the null path is no candidate, and the candidate
\* list is the one built from the list without its inert descriptors.
C12_InertSkipped ==
    Done =>
        /\ NullCalls = { }
        /\ \A i \in 1..Len(devices) : devices[i] # None
        /\ devices = CandidatesWithoutInert

\* What a call that returned changed on the host h.
Effect(h, e) ==
    CASE e.op = "umount" ->
             [h EXCEPT !.mounted[e.arg] = FALSE]
      [] e.op = "remove_lvm_physical_volume" ->
             [h EXCEPT !.pv[e.arg] = FALSE, !.vg[e.arg] = NoVG]
      [] e.op = "create_lvm_physical_volume" ->
             [h EXCEPT !.pv[e.arg] = TRUE, !.vg[e.arg] = NoVG]
      [] e.op \in { "create_lvm_volume_group", "extend_lvm_volume_group" } ->
             [h EXCEPT !.vg[e.arg] = TargetVG]
      [] OTHER -> h

\* The host after the first n calls of the pass returned.
RECURSIVE Applied(_)
Applied(n) == IF n = 0 THEN pre ELSE Effect(Applied(n - 1), log[n])

Host == [ mounted |-> mounted, pv |-> pv, vg |-> vg ]

\* C13: when a call of a pass fails, it is the last call of the pass, and
\* the host is left as the calls that returned before it made it: nothing
\* is rolled back.
C13_AbortAtFailure ==
    (Done /\ ~ok) =>
        /\ failed > 0
        /\ failed = Len(log)
        /\ Host = Applied(failed - 1)

\* The group was created from one device and the extension with the next
\* device failed: the first device is left in the group, the second is left
\* a physical volume.
C13_Witness ==
    /\ Done /\ ~ok /\ failed = Len(log)
    /\ log[failed].op = "extend_lvm_volume_group"
    /\ pv[log[failed].arg] /\ ~pre.pv[log[failed].arg]
    /\ \E i \in Calls("create_lvm_volume_group") :
           /\ i < failed
           /\ log[i].arg # log[failed].arg
           /\ ~pre.pv[log[i].arg]
           /\ vg[log[i].arg] = TargetVG

\* The calls clean_storage makes.
CleanSteps ==
    { "mounts", "umount", "is_lvm_physical_volume",
      "deactivate_lvm_volume_group", "remove_lvm_physical_volume", "zap_disk" }

\* The calls of the run of clean_storage entered at position i of the log.
CleanRun(i) ==
    LET end == IF \E j \in (i + 1)..Len(log) : log[j].op \notin CleanSteps
               THEN CHOOSE j \in (i + 1)..Len(log) :
                        /\ log[j].op \notin CleanSteps
                        /\ \A k \in (i + 1)..(j - 1) : log[k].op \in CleanSteps
               ELSE Len(log) + 1
    IN  SubSeq(log, i + 1, end - 1)

\* The steps of a run on a device that is mounted or not, a physical volume
\* or not, at the entry of the run.
StepsFor(e) ==
    << "mounts" >>
    \o (IF e.mnt THEN << "umount" >> ELSE << >>)
    \o << "is_lvm_physical_volume" >>
    \o (IF e.pv
        THEN << "deactivate_lvm_volume_group", "remove_lvm_physical_volume" >>
        ELSE << >>)
    \o << "zap_disk" >>

\* C14: a run of clean_storage on a device makes its calls on that device
\* in the order umount (when the device is mounted), then deactivate and
\* remove (only when the device is a physical volume, and in that order),
\* then zap_disk; the run stops only at a call that fails, so zap_disk is
\* the last call of every run in which no call failed; and when zap_disk is
\* called the device is not mounted, no physical volume and in no group.
C14_CleanOrder ==
    Done =>
        \A i \in Calls("clean_storage") :
            LET run == CleanRun(i)
                steps == StepsFor(log[i])
                n == Len(run)
            IN  /\ n <= Len(steps)
                /\ \A k \in 1..n :
                       run[k].op = steps[k] /\ run[k].arg = log[i].arg
                /\ n < Len(steps) => failed = i + n
                /\ n = Len(steps) =>
                       ~run[n].mnt /\ ~run[n].pv /\ run[n].vg = NoVG

\* A run on a mounted physical volume of another group that made its six
\* calls, the creation of the physical volume following.
C14_Witness ==
    /\ Done
    /\ \E i \in Calls("clean_storage") :
           /\ log[i].mnt /\ log[i].pv /\ log[i].vg = OtherVG
           /\ Len(CleanRun(i)) = 6
           /\ failed # i + 6
           /\ ~mounted[log[i].arg]
           /\ log[i + 7].op = "create_lvm_physical_volume"

\* The normalized size is zero: the integer 0 or the string '0'.
ZeroSize(size) == size \in { Int0, << "0" >> }

\* The path was mounted at the entry of the pass.
WasMounted(path) == path \in DOMAIN pre.mounted /\ pre.mounted[path]

\* C15: ensure_loopback_device is called for a descriptor exactly when its
\* normalized size is not zero and its path is not mounted; a descriptor
\* whose size is 0 or '0' is never handed to ensure_loopback_device.
C15_LoopbackIffSized ==
    (Done /\ normalized # NotParsed) =>
        /\ Calls("ensure_loopback_device") # { } <=>
               (~ZeroSize(normalized[2]) /\ ~WasMounted(normalized[1]))
        /\ \A i \in Calls("ensure_loopback_device") : log[i].arg = normalized[1]

\* The positions of the upgrade's log that hold a call of op.
UCalls(op) == { i \in 1..Len(ulog) : ulog[i].op = op }

\* Every service of services() has a service_stop call before position i.
AllStoppedBefore(i) ==
    \A s \in ServiceSet(enabled) :
        \E j \in 1..(i - 1) : ulog[j] = Call("service_stop", s)

\* C16: in do_openstack_upgrade migrate_database is called at most once,
\* only when eligible_leader(CLUSTER_RES) answered true, after service_stop
\* was called for every service of services() and before any service_start
\* call; on a unit that is not the leader the upgrade that ends has made no
\* migrate_database call and has stopped and then started every service.
C16_MigrationGated ==
    /\ Cardinality(UCalls("migrate_database")) <= 1
    /\ \A i \in UCalls("migrate_database") :
           /\ leader
           /\ \E j \in 1..(i - 1) : ulog[j] = Call("eligible_leader", CLUSTER_RES)
           /\ AllStoppedBefore(i)
           /\ \A k \in UCalls("service_start") : i < k
    /\ (upc \in { "start", "done" } /\ ~leader) =>
           UCalls("migrate_database") = { }
    /\ (upc = "done" /\ ~leader) =>
           \A s \in ServiceSet(enabled) :
               \E j, k \in 1..Len(ulog) :
                   /\ j < k
                   /\ ulog[j] = Call("service_stop", s)
                   /\ ulog[k] = Call("service_start", s)

\* The leader's upgrade of a unit with every service enabled has ended: the
\* migration ran between the five stops and the five starts.
C16_Witness ==
    /\ upc = "done" /\ leader
    /\ enabled = CinderServices
    /\ \E i \in UCalls("migrate_database") :
           /\ Cardinality({ j \in UCalls("service_stop") : j < i }) = 5
           /\ Cardinality({ k \in UCalls("service_start") : k > i }) = 5

\* The calls that put a device into the group.
GroupOps == { "create_lvm_volume_group", "extend_lvm_volume_group" }
GroupCalls == { i \in 1..Len(log) : log[i].op \in GroupOps }

\* C17: every device handed to create_lvm_volume_group or
\* extend_lvm_volume_group was, earlier in the pass, sanitized by
\* clean_storage and then initialized by create_lvm_physical_volume, and is
\* a physical volume of no group when the call is made; every clean_storage
\* and create_lvm_physical_volume call of the pass precedes the first of
\* these calls.
C17_PreparedBeforeGrouped ==
    Done =>
        /\ \A i \in GroupCalls :
               /\ \E j, k \in 1..(i - 1) :
                      /\ j < k
                      /\ log[j].op = "clean_storage" /\ log[j].arg = log[i].arg
                      /\ log[k].op = "create_lvm_physical_volume"
                      /\ log[k].arg = log[i].arg
               /\ log[i].pv /\ log[i].vg = NoVG
        /\ \A i \in GroupCalls, j \in 1..Len(log) :
               log[j].op \in { "clean_storage", "create_lvm_physical_volume" } => j < i

\* The calls of op made on the device d.
CallsOn(op, d) == { i \in Calls(op) : log[i].arg = d }

\* C18: in a pass each device is sanitized at most once, initialized as a
\* physical volume at most once and put into the group, by the creation or
\* by an extension, at most once, whatever the descriptors, two of which may
\* name the same device; and extend_lvm_volume_group is never called on a
\* device that is a member of the target group.
C18_AtMostOncePerDevice ==
    Done =>
        /\ \A d \in Devices :
               /\ Cardinality(CallsOn("clean_storage", d)) <= 1
               /\ Cardinality(CallsOn("create_lvm_physical_volume", d)) <= 1
               /\ Cardinality({ i \in GroupCalls : log[i].arg = d }) <= 1
        /\ \A i \in Calls("extend_lvm_volume_group") :
               ~(log[i].pv /\ log[i].vg = TargetVG)

\* The pass repeats, with overwrite=true, a pass that a failing call aborted.
Recovering == Done /\ prev.again /\ ~prev.ok /\ args.overwrite

\* Every candidate of the pass is a physical volume of the target group.
Converged == \A i \in 1..Len(devices) : NowInTarget(devices[i])

\* C19: a pass that repeats, with overwrite=true, a pass aborted by a
\* failing call calls neither create_lvm_volume_group while the target
\* group exists nor extend_lvm_volume_group on a member of the group, and
\* when none of its calls fails it leaves every candidate in the target
\* group.
C19_RecoveryConverges ==
    Recovering =>
        /\ \A i \in Calls("create_lvm_volume_group") : ~log[i].vgx
        /\ \A i \in Calls("extend_lvm_volume_group") :
               ~(log[i].pv /\ log[i].vg = TargetVG)
        /\ ok => Converged

\* C20: no device is mounted when clean_storage is called on it, the loop
\* device that ensure_loopback_device returned for a backing file included,
\* and the pass makes no umount call.
C20_NeverSanitizeMounted ==
    Done =>
        /\ \A i \in Calls("clean_storage") : ~log[i].mnt
        /\ Calls("umount") = { }

====
